---- MODULE Spec2Model ----
(***************************************************************************)
(* Model of src/app.py: the Flask handlers that create, edit, finalize and *)
(* resume a generated blog post, the flat-file content store, the          *)
(* process-wide Rewriter memory, and the per-user custom tone list.        *)
(*                                                                         *)
(* One browser session is modelled.  A text is a sequence of characters    *)
(* over a small alphabet in which "CR" and "LF" stand for '\r' and '\n',   *)
(* so that Python's text-mode newline translation is computed, not assumed.*)
(* Stored files blog_<t>.txt are named by their timestamp t.  The display   *)
(* fields 'created' and 'timestamp' (formatted wall-clock time that no      *)
(* handler reads) and the bytes of the generated image are left out: a     *)
(* post carries the image filename or None.                                *)
(*                                                                         *)
(* The handlers are translated without limits; the specifications explore  *)
(* them while Cost, the sum of what the program lets grow, stays within a  *)
(* bound.                                                                  *)
(***************************************************************************)
EXTENDS Integers, Sequences, FiniteSets, TLC

VARIABLES
    session,        \* flask session: current_post, chat_history, session_id, user
    files,          \* Config.GENERATED_DIR: timestamp of blog_<t>.txt -> bytes
    conversations,  \* AzureServices.conversations: session_id -> messages
    USERS,          \* UserSession.USERS: username -> user record
    clock,          \* int(time.time())
    urandom,        \* number of session ids drawn from os.urandom so far
    response,       \* what the last handler returned
    editCall,       \* the Rewriter edit calls the last request made
    draft,          \* history of the live draft: how it began, what happened to it
    requests        \* the /review requests being served at the same time, by tab

vars == <<session, files, conversations, USERS, clock, urandom,
          response, editCall, draft, requests>>

-----------------------------------------------------------------------------
(* Bounds *)

MaxCost == 5         \* largest Cost explored by Spec (see Cost below)
MaxEditCost == 7     \* largest Cost explored by SpecEdit
MaxRaceCost == 6     \* largest Cost explored by SpecRace
MaxMemoryCost == 8   \* largest Cost explored by SpecMemory
MaxTones == 2        \* custom tones stored per user at most

-----------------------------------------------------------------------------
(* Values *)

None == <<"None">>     \* Python None, where a text or a filename is expected
Raise == <<"raise">>   \* the call raised an exception instead of returning a text
NoFilename == <<>>     \* request.args.get('filename') is None or ''

\* a Python dict is a function whose DOMAIN is the set of keys present
EmptyDict == [k \in {} |-> 0]

Put(d, k, v) == [x \in DOMAIN d \cup {k} |-> IF x = k THEN v ELSE d[x]]

BlogFile(t) == <<"blog", t>>      \* f"blog_{t}.txt"
ImageFile(t) == <<"image", t>>    \* f"image_{t}.png"

GenTexts == {<<"a", "LF">>}                            \* rewrite_content results
EditTexts == {<<"b">>}                                  \* edit_content results
FormTexts == {<<"a", "CR", "LF", "b">>}                \* request.form['content']
Messages == {<<"make it shorter">>}                        \* request.form['edit_message']
Articles == {"A.docx"}                                  \* files in ARTICLES_DIR
SystemPrompt == <<"You are a legal blog post editor.">>

\* os.linesep of the platform the application runs on (POSIX)
linesep == <<"LF">>

-----------------------------------------------------------------------------
(* str methods *)

RECURSIVE lstrip(_)
lstrip(s) == IF s # <<>> /\ Head(s) = " " THEN lstrip(Tail(s)) ELSE s

RECURSIVE rstrip(_)
rstrip(s) ==
    IF s # <<>> /\ s[Len(s)] = " " THEN rstrip(SubSeq(s, 1, Len(s) - 1)) ELSE s

\* str.strip()
strip(s) == rstrip(lstrip(s))

\* str.lower() on the alphabet of tone names
lower(s) ==
    [i \in 1..Len(s) |->
        IF s[i] = "F" THEN "f" ELSE IF s[i] = "G" THEN "g" ELSE s[i]]

-----------------------------------------------------------------------------
(* Text-mode file I/O *)

RECURSIVE WriteText(_)
\* f.write(content) on a file opened with 'w': every '\n' becomes os.linesep
WriteText(s) ==
    IF s = <<>> THEN <<>>
    ELSE (IF Head(s) = "LF" THEN linesep ELSE <<Head(s)>>) \o WriteText(Tail(s))

RECURSIVE ReadText(_)
\* f.read() on a file opened with 'r': '\r\n' and '\r' are read as '\n'
ReadText(s) ==
    IF s = <<>> THEN <<>>
    ELSE IF Head(s) = "CR"
         THEN IF Len(s) > 1 /\ s[2] = "LF"
              THEN <<"LF">> \o ReadText(SubSeq(s, 3, Len(s)))
              ELSE <<"LF">> \o ReadText(Tail(s))
         ELSE <<Head(s)>> \o ReadText(Tail(s))

\* FileManager.save_content: the filename it returns
save_content_filename == BlogFile(clock)

\* save_content that opens with 'x' semantics and keeps an existing file
save_content_exclusive(fs, content) ==
    [t \in DOMAIN fs \cup {save_content_filename} |->
        IF t \in DOMAIN fs THEN fs[t] ELSE WriteText(content)]

\* FileManager.save_content: the directory after the write (an existing file
\* of the same second is overwritten)
save_content(fs, content) ==
    [t \in DOMAIN fs \cup {save_content_filename} |->
        IF t = save_content_filename THEN WriteText(content) ELSE fs[t]]

-----------------------------------------------------------------------------
(* Session helpers *)

BlogMessage(content) ==
    [role |-> "assistant", content |-> content, content_is_blog |-> TRUE]

UserMessage(text) ==
    [role |-> "user", content |-> text, content_is_blog |-> FALSE]

SystemNote ==
    [role |-> "system", content |-> <<"User saved manual changes">>,
     content_is_blog |-> FALSE]

RECURSIVE current_content_from_head(_, _)
\* current_content without reversed(): the first blog message wins
current_content_from_head(history, default) ==
    IF history = <<>> THEN default
    ELSE IF history[1].content_is_blog
         THEN history[1].content
         ELSE current_content_from_head(Tail(history), default)

RECURSIVE current_content(_, _)
\* next((msg['content'] for msg in reversed(history) if msg['content_is_blog']), default)
current_content(history, default) ==
    IF history = <<>> THEN default
    ELSE IF history[Len(history)].content_is_blog
         THEN history[Len(history)].content
         ELSE current_content(SubSeq(history, 1, Len(history) - 1), default)

\* url_for('static', ...) if post.get('image') else None
image_url(post) ==
    IF "image" \in DOMAIN post /\ post.image # None
    THEN <<"static/generated">> \o post.image
    ELSE None

Response(status) == [status |-> status]

NoDraft ==
    [origin |-> "none", content |-> <<>>, edited |-> FALSE, finalized |-> FALSE]

NewDraft(origin, content) ==
    [origin |-> origin, content |-> content, edited |-> FALSE, finalized |-> FALSE]

-----------------------------------------------------------------------------
(* AzureServices *)

\* generate_image without the try/except
generate_image_raising(outcome) ==
    IF outcome = "ok" THEN ImageFile(clock) ELSE Raise

\* generate_image: the filename returned; any failure is caught and gives None
generate_image(outcome) ==
    IF outcome = "ok" THEN ImageFile(clock) ELSE None

\* edit_content that appends to the memory only once the completion returned
edit_content_rolling_back(convs, session_id, user_message, content, result) ==
    IF result = Raise THEN convs
    ELSE LET c0 == IF session_id \in DOMAIN convs THEN convs[session_id]
                   ELSE <<[role |-> "system", content |-> SystemPrompt]>>
             c1 == IF content # <<>>
                   THEN Append(c0, [role |-> "assistant", content |-> content])
                   ELSE c0
             c2 == Append(c1, [role |-> "user", content |-> user_message])
             c3 == Append(c2, [role |-> "assistant", content |-> result])
         IN  [s \in DOMAIN convs \cup {session_id} |->
                 IF s = session_id THEN c3 ELSE convs[s]]

\* edit_content: the memory of session_id after the call; result is the text
\* the completion returned, or Raise when the completion call failed
edit_content(convs, session_id, user_message, content, result) ==
    LET c0 == IF session_id \in DOMAIN convs THEN convs[session_id]
              ELSE <<[role |-> "system", content |-> SystemPrompt]>>
        c1 == IF content # <<>>
              THEN Append(c0, [role |-> "assistant", content |-> content])
              ELSE c0
        c2 == Append(c1, [role |-> "user", content |-> user_message])
        c3 == IF result = Raise THEN c2
              ELSE Append(c2, [role |-> "assistant", content |-> result])
    IN  [s \in DOMAIN convs \cup {session_id} |->
            IF s = session_id THEN c3 ELSE convs[s]]

RECURSIVE EditCalls(_)
\* number of edit_content calls the Rewriter memory records, over all
\* session ids: each call appends one 'user' message
EditCalls(convs) ==
    IF DOMAIN convs = {} THEN 0
    ELSE LET s == CHOOSE x \in DOMAIN convs : TRUE
         IN  Cardinality({i \in 1..Len(convs[s]) : convs[s][i].role = "user"})
             + EditCalls([y \in DOMAIN convs \ {s} |-> convs[y]])

\* what the program lets grow without limit, added up: seconds passed,
\* session ids drawn, files stored, Rewriter calls, and transcript messages
\* (the instruction of a chat edit is counted once, with its Rewriter call)
Cost ==
    clock + urandom + Cardinality(DOMAIN files) + EditCalls(conversations)
    + (IF "chat_history" \in DOMAIN session
       THEN Cardinality({i \in 1..Len(session.chat_history) :
                            session.chat_history[i].role # "user"})
       ELSE 0)

\* the states explored
Within(maxCost) == Cost <= maxCost

-----------------------------------------------------------------------------
Init ==
    /\ session = EmptyDict
    /\ files = EmptyDict
    /\ conversations = EmptyDict
    /\ USERS =
         [admin |-> [email |-> "admin@lawfirm.com", password |-> "password123",
                     firm |-> "Legal Partners", location |-> "New York",
                     custom_tones |-> <<>>],
          memberhub |-> [email |-> "memberhub@newlawbusinessmodel.com",
                         password |-> "memberhub123",
                         firm |-> "New Law Business Model", location |-> "Global",
                         custom_tones |-> <<>>]]
    /\ clock = 0
    /\ urandom = 0
    /\ response = Response("none")
    /\ editCall = <<>>
    /\ draft = NoDraft
    /\ requests = EmptyDict

\* time passes between requests
Tick ==
    /\ clock' = clock + 1
    /\ UNCHANGED <<session, files, conversations, USERS, urandom,
                   response, editCall, draft>>

\* logout that also drops the Rewriter memory
logout_evicting ==
    /\ session' = EmptyDict
    /\ conversations' = EmptyDict
    /\ response' = Response("redirect:login")
    /\ draft' = NoDraft
    /\ editCall' = <<>>
    /\ UNCHANGED <<files, USERS, clock, urandom>>

\* logout: session.clear()
logout ==
    /\ session' = EmptyDict
    /\ response' = Response("redirect:login")
    /\ draft' = NoDraft
    /\ editCall' = <<>>
    /\ UNCHANGED <<files, conversations, USERS, clock, urandom>>

\* new_session that leaves the transcript empty
new_session_unseeded(s, post, session_id) ==
    Put(Put(Put(s, "current_post", post), "chat_history", <<>>),
        "session_id", session_id)

\* select_article and review, when they start a draft: the session keys
\* current_post, chat_history (one blog message) and session_id are set
new_session(s, post, session_id) ==
    Put(Put(Put(s, "current_post", post),
                   "chat_history", <<BlogMessage(post.content)>>),
                   "session_id", session_id)

\* chat_edit that forgets post['content'] = edited_content
chat_edit_stale(s, user_message, edited_content) ==
    [s EXCEPT !.chat_history = @ \o <<UserMessage(user_message),
                                      BlogMessage(edited_content)>>]

\* review, chat-style editing: what it stores once the Rewriter has answered
chat_edit(s, user_message, edited_content) ==
    [s EXCEPT !.chat_history = @ \o <<UserMessage(user_message),
                                      BlogMessage(edited_content)>>,
              !.current_post.content = edited_content]

\* review, manual editing
manual_edit(s, content) ==
    [s EXCEPT !.current_post.content = content,
              !.chat_history = Append(@, BlogMessage(content))]

\* select_article: /select/<article>, GET or POST
select_article(method, article, tone, custom_tone, rewritten, image_outcome) ==
    /\ IF method = "GET"
       THEN /\ response' = Response("render:select")
            /\ editCall' = <<>>
            /\ UNCHANGED <<session, files, conversations, USERS, clock,
                           urandom, draft>>
       ELSE IF article \notin Articles \/ rewritten = Raise
                \/ generate_image(image_outcome) = Raise
       THEN \* read_docx, rewrite_content (or the image step) raised
            /\ response' = Response("error:500")
            /\ editCall' = <<>>
            /\ UNCHANGED <<session, files, conversations, USERS, clock,
                           urandom, draft>>
       ELSE LET chosen == IF tone = <<"custom">> /\ strip(custom_tone) # <<>>
                          THEN strip(custom_tone) ELSE tone
                blog_content == rewritten
                image_filename == generate_image(image_outcome)
                filename == save_content_filename
            IN  /\ files' = save_content(files, blog_content)
                /\ session' =
                     new_session(session,
                        [original |-> article, content |-> blog_content,
                         image |-> image_filename, tone |-> chosen,
                         filename |-> filename],
                        urandom + 1)
                /\ urandom' = urandom + 1
                /\ response' = Response("redirect:review")
                /\ draft' = NewDraft("generation", blog_content)
                /\ editCall' = <<>>
                /\ UNCHANGED <<conversations, USERS, clock>>

\* use_version without the current_post check: the assignment raises KeyError
use_version_unguarded(form) ==
    IF "content" \notin DOMAIN form
    THEN /\ response' = Response("error:400")
         /\ editCall' = <<>>
         /\ UNCHANGED <<session, files, conversations, USERS, clock, urandom,
                        draft>>
    ELSE IF "current_post" \notin DOMAIN session
    THEN /\ response' = Response("error:500")
         /\ editCall' = <<>>
         /\ UNCHANGED <<session, files, conversations, USERS, clock, urandom,
                        draft>>
    ELSE /\ session' = [session EXCEPT !.current_post.content = form.content]
         /\ response' = Response("redirect:finalize")
         /\ draft' = [draft EXCEPT !.edited = TRUE]
         /\ editCall' = <<>>
         /\ UNCHANGED <<files, conversations, USERS, clock, urandom>>

\* use_version: POST /use_version
use_version(form) ==
    IF "current_post" \notin DOMAIN session
    THEN /\ response' = Response("redirect:dashboard")
         /\ editCall' = <<>>
         /\ UNCHANGED <<session, files, conversations, USERS, clock, urandom,
                        draft>>
    ELSE IF "content" \notin DOMAIN form
    THEN \* request.form['content'] raises BadRequestKeyError
         /\ response' = Response("error:400")
         /\ editCall' = <<>>
         /\ UNCHANGED <<session, files, conversations, USERS, clock, urandom,
                        draft>>
    ELSE /\ session' = [session EXCEPT !.current_post.content = form.content]
         /\ response' = Response("redirect:finalize")
         /\ draft' = [draft EXCEPT !.edited = TRUE]
         /\ editCall' = <<>>
         /\ UNCHANGED <<files, conversations, USERS, clock, urandom>>

\* finalize that closes the draft by dropping it from the session
finalize_ending ==
    /\ IF "current_post" \notin DOMAIN session
       THEN /\ response' = Response("redirect:dashboard")
            /\ editCall' = <<>>
            /\ UNCHANGED <<session, files, conversations, USERS, clock,
                           urandom, draft>>
       ELSE LET post == session.current_post
            IN  /\ files' = save_content(files, post.content)
                /\ response' = [status |-> "render:finalize",
                                filename |-> save_content_filename]
                /\ draft' = [draft EXCEPT !.finalized = TRUE]
                /\ session' = [k \in DOMAIN session \ {"current_post", "chat_history",
                                                        "session_id"} |-> session[k]]
                /\ editCall' = <<>>
                /\ UNCHANGED <<conversations, USERS, clock, urandom>>

\* finalize: GET /finalize
finalize ==
    /\ IF "current_post" \notin DOMAIN session
       THEN /\ response' = Response("redirect:dashboard")
            /\ editCall' = <<>>
            /\ UNCHANGED <<session, files, conversations, USERS, clock,
                           urandom, draft>>
       ELSE LET post == session.current_post
            IN  /\ files' = save_content(files, post.content)
                /\ response' = [status |-> "render:finalize",
                                filename |-> save_content_filename]
                /\ draft' = [draft EXCEPT !.finalized = TRUE]
                /\ editCall' = <<>>
                /\ UNCHANGED <<session, conversations, USERS, clock, urandom>>

\* record_system_note that assigns a new list instead of appending
record_system_note_reset(history) == <<SystemNote>>

\* save_changes: session['chat_history'].append({'role': 'system', ...})
record_system_note(history) == Append(history, SystemNote)

\* save_changes: POST /save_changes
save_changes(form) ==
    /\ IF "current_post" \notin DOMAIN session
       THEN /\ response' = Response("redirect:dashboard")
            /\ editCall' = <<>>
            /\ UNCHANGED <<session, files, conversations, USERS, clock,
                           urandom, draft>>
       ELSE LET edited_content == IF "content" \in DOMAIN form THEN form.content
                                  ELSE <<>>
                s1 == [session EXCEPT !.current_post.content = edited_content]
                s2 == IF "chat_history" \notin DOMAIN s1
                      THEN Put(s1, "chat_history", <<>>) ELSE s1
            IN  /\ session' = [s2 EXCEPT !.chat_history = record_system_note(@)]
                /\ response' = Response("redirect:finalize")
                /\ draft' = [draft EXCEPT !.edited = TRUE]
                /\ editCall' = <<>>
                /\ UNCHANGED <<files, conversations, USERS, clock, urandom>>

\* download: GET /download/<filename>, the bytes send_from_directory serves
download(filename) == files[filename]

\* review: /review, GET or POST.  result is what the Rewriter returns when the
\* request is a chat edit; persisted tells whether the session is still
\* written back when the handler fails (Flask's error handler saves it,
\* app.run(debug=True) lets the exception propagate and does not)
review(method, filename, form, result, persisted) ==
    LET resume == filename # NoFilename /\ "current_post" \notin DOMAIN session
        loaded == resume /\ filename \in DOMAIN files
        content == IF loaded THEN ReadText(files[filename]) ELSE <<>>
        s1 == IF loaded
              THEN new_session(session, [content |-> content, filename |-> filename],
                               urandom + 1)
              ELSE session
        d1 == IF loaded THEN NewDraft("file", content) ELSE draft
    IN
    IF (resume /\ ~loaded) \/ "current_post" \notin DOMAIN s1
    THEN /\ response' = Response("redirect:dashboard")
         /\ editCall' = <<>>
         /\ UNCHANGED <<session, files, conversations, USERS, clock, urandom,
                        draft>>
    ELSE
    LET s2 == IF "session_id" \notin DOMAIN s1
              THEN Put(s1, "session_id", urandom + 1) ELSE s1
        s3 == IF "chat_history" \notin DOMAIN s2
              THEN Put(s2, "chat_history", <<BlogMessage(s2.current_post.content)>>)
              ELSE s2
        post == s3.current_post
        drawn == IF loaded \/ "session_id" \notin DOMAIN s1 THEN 1 ELSE 0
    IN
    /\ urandom' = urandom + drawn
    /\ UNCHANGED <<USERS, clock>>
    /\ IF method = "POST" /\ "edit_message" \in DOMAIN form
       THEN LET user_message == form.edit_message
                cur == current_content(s3.chat_history, post.content)
                convs == edit_content(conversations, s3.session_id, user_message,
                                      cur, result)
            IN  /\ conversations' = convs
                /\ editCall' = <<[session_id |-> s3.session_id,
                                  user_message |-> user_message,
                                  current_content |-> cur, result |-> result]>>
                /\ files' = files
                /\ IF result = Raise
                   THEN /\ session' = IF persisted THEN s3 ELSE session
                        /\ draft' = IF persisted THEN d1 ELSE draft
                        /\ response' = Response("error:500")
                   ELSE /\ session' = chat_edit(s3, user_message, result)
                        /\ draft' = [d1 EXCEPT !.edited = TRUE]
                        /\ response' = Response("redirect:review")
       ELSE IF method = "POST" /\ "content" \in DOMAIN form
       THEN /\ session' = manual_edit(s3, form.content)
            /\ draft' = [d1 EXCEPT !.edited = TRUE]
            /\ response' = Response("redirect:review")
            /\ editCall' = <<>>
            /\ UNCHANGED <<files, conversations>>
       ELSE IF method = "POST"
       THEN /\ session' = s3
            /\ draft' = d1
            /\ response' = Response("redirect:review")
            /\ editCall' = <<>>
            /\ UNCHANGED <<files, conversations>>
       ELSE LET unsaved == "filename" \notin DOMAIN post
                post1 == IF unsaved THEN Put(post, "filename", save_content_filename)
                         ELSE post
            IN  /\ files' = IF unsaved THEN save_content(files, post.content)
                            ELSE files
                /\ session' = [s3 EXCEPT !.current_post = post1]
                /\ draft' = d1
                /\ response' = Response("render:review")
                /\ editCall' = <<>>
                /\ UNCHANGED <<conversations>>

-----------------------------------------------------------------------------
(* review, served for several tabs at once.  Session(app) keeps the session *)
(* on the server: it is read when a request begins and written back when   *)
(* the request ends, and nothing is locked in between.  The steps below    *)
(* are the edits of review on a session that holds current_post,           *)
(* chat_history and session_id, with completion calls that return.         *)

Tabs == {"tab1", "tab2"}

\* the session is read for the request of tab; review finds the three keys
\* present and reaches the POST branch
review_open(tab, form) ==
    /\ tab \in DOMAIN requests => requests[tab].pc = "done"
    /\ {"current_post", "chat_history", "session_id"} \subseteq DOMAIN session
    /\ requests' =
         Put(requests, tab,
             [session |-> session, form |-> form,
              pc |-> IF "edit_message" \in DOMAIN form THEN "call" ELSE "store",
              current_content |-> None, result |-> None,
              overwrote |-> EmptyDict])
    /\ UNCHANGED <<session, files, conversations, USERS, clock, urandom,
                   response, editCall, draft>>

\* the chat edit of tab enters edit_content, which appends to the Rewriter
\* memory and sends the completion request
review_call(tab) ==
    /\ tab \in DOMAIN requests
    /\ requests[tab].pc = "call"
    /\ LET r == requests[tab]
           cur == current_content(r.session.chat_history,
                                  r.session.current_post.content)
       IN  /\ conversations' =
                edit_content(conversations, r.session.session_id,
                             r.form.edit_message, cur, Raise)
           /\ requests' = [requests EXCEPT ![tab].pc = "return",
                                           ![tab].current_content = cur]
    /\ UNCHANGED <<session, files, USERS, clock, urandom, response, editCall,
                   draft>>

\* the completion returns result; edit_content appends it and returns
review_return(tab, result) ==
    /\ tab \in DOMAIN requests
    /\ requests[tab].pc = "return"
    /\ conversations' =
         [conversations EXCEPT ![requests[tab].session.session_id] =
              Append(@, [role |-> "assistant", content |-> result])]
    /\ requests' = [requests EXCEPT ![tab].pc = "store", ![tab].result = result]
    /\ UNCHANGED <<session, files, USERS, clock, urandom, response, editCall,
                   draft>>

\* review_store that applies the edit to the session as it is stored now
review_store_merging(tab) ==
    /\ tab \in DOMAIN requests
    /\ requests[tab].pc = "store"
    /\ {"current_post", "chat_history", "session_id"} \subseteq DOMAIN session
    /\ LET r == requests[tab]
           chat == "edit_message" \in DOMAIN r.form
       IN  /\ session' = IF chat
                         THEN chat_edit(session, r.form.edit_message, r.result)
                         ELSE manual_edit(session, r.form.content)
           /\ editCall' =
                IF chat
                THEN <<[session_id |-> r.session.session_id,
                        user_message |-> r.form.edit_message,
                        current_content |-> r.current_content,
                        result |-> r.result]>>
                ELSE <<>>
           /\ requests' = [requests EXCEPT ![tab].pc = "done",
                                           ![tab].overwrote = session]
    /\ response' = Response("redirect:review")
    /\ draft' = [draft EXCEPT !.edited = TRUE]
    /\ UNCHANGED <<files, conversations, USERS, clock, urandom>>

\* the request of tab applies its edit to the session it read, answers with
\* the redirect, and the session is written back
review_store(tab) ==
    /\ tab \in DOMAIN requests
    /\ requests[tab].pc = "store"
    /\ LET r == requests[tab]
           chat == "edit_message" \in DOMAIN r.form
       IN  /\ session' = IF chat
                         THEN chat_edit(r.session, r.form.edit_message, r.result)
                         ELSE manual_edit(r.session, r.form.content)
           /\ editCall' =
                IF chat
                THEN <<[session_id |-> r.session.session_id,
                        user_message |-> r.form.edit_message,
                        current_content |-> r.current_content,
                        result |-> r.result]>>
                ELSE <<>>
           /\ requests' = [requests EXCEPT ![tab].pc = "done",
                                           ![tab].overwrote = session]
    /\ response' = Response("redirect:review")
    /\ draft' = [draft EXCEPT !.edited = TRUE]
    /\ UNCHANGED <<files, conversations, USERS, clock, urandom>>

-----------------------------------------------------------------------------
(* UserSession *)

\* tone_exists that compares the names as they are
tone_exists_case_sensitive(custom_tones, tone_name) ==
    \E i \in 1..Len(custom_tones) : custom_tones[i].name = tone_name

\* any(t['name'].lower() == tone_name.lower() for t in custom_tones)
tone_exists(custom_tones, tone_name) ==
    \E i \in 1..Len(custom_tones) : lower(custom_tones[i].name) = lower(tone_name)

\* UserSession.add_custom_tone: its return value
add_custom_tone_result(users, username, tone_name) ==
    /\ username \in DOMAIN users
    /\ ~tone_exists(users[username].custom_tones, tone_name)

\* UserSession.add_custom_tone: UserSession.USERS after the call
add_custom_tone(users, username, tone_name, tone_description) ==
    IF add_custom_tone_result(users, username, tone_name)
    THEN [users EXCEPT ![username].custom_tones =
            Append(@, [name |-> strip(tone_name),
                       description |-> strip(tone_description)])]
    ELSE users

\* the name add_tone passes on: request.form.get('tone_name', '').strip()
tone_name_of(form) ==
    IF "tone_name" \in DOMAIN form THEN strip(form.tone_name) ELSE <<>>

\* login: POST /login (UserSession.login)
login(email, password) ==
    LET matching == {u \in DOMAIN USERS : USERS[u].email = email}
    IN  /\ IF matching # {} /\ \E u \in matching : USERS[u].password = password
           THEN LET username == CHOOSE u \in matching : TRUE
                    user_data == USERS[username]
                IN  /\ session' = Put(session, "user",
                            [username |-> username, email |-> email,
                             firm |-> user_data.firm,
                             location |-> user_data.location,
                             custom_tones |-> user_data.custom_tones])
                    /\ response' = Response("redirect:dashboard")
           ELSE /\ session' = session
                /\ response' = Response("render:login")
        /\ editCall' = <<>>
        /\ UNCHANGED <<files, conversations, USERS, clock, urandom, draft>>

\* add_tone: POST /add_tone
add_tone(form) ==
    IF "user" \notin DOMAIN session
    THEN /\ response' = Response("redirect:login")
         /\ editCall' = <<>>
         /\ UNCHANGED <<session, files, conversations, USERS, clock, urandom,
                        draft>>
    ELSE LET user == session.user
             tone_name == tone_name_of(form)
             tone_description == IF "tone_description" \in DOMAIN form
                                 THEN strip(form.tone_description) ELSE <<>>
         IN  IF tone_name = <<>>
             THEN /\ response' = Response("error:400 Tone name is required")
                  /\ editCall' = <<>>
                  /\ UNCHANGED <<session, files, conversations, USERS, clock,
                                 urandom, draft>>
             ELSE /\ Len(add_custom_tone(USERS, user.username, tone_name,
                                         tone_description)[user.username]
                            .custom_tones) <= MaxTones
                  /\ USERS' = add_custom_tone(USERS, user.username, tone_name,
                                              tone_description)
                  /\ IF add_custom_tone_result(USERS, user.username, tone_name)
                     THEN /\ session' =
                               [session EXCEPT !.user.custom_tones =
                                    USERS'[user.username].custom_tones]
                          /\ response' = Response("json:200")
                     ELSE /\ session' = session
                          /\ response' =
                               Response("error:400 Tone with this name already exists")
                  /\ editCall' = <<>>
                  /\ UNCHANGED <<files, conversations, clock, urandom, draft>>

ToneForms ==
    {EmptyDict}
    \cup [tone_name : {<<"F">>, <<"f">>, <<"F", " ">>, <<" ">>, <<"G">>,
                       <<"h">>},
          tone_description : {<<"d", " ">>}]

Credentials ==
    {<<"admin@lawfirm.com", "password123">>,
     <<"memberhub@newlawbusinessmodel.com", "memberhub123">>,
     <<"admin@lawfirm.com", "memberhub123">>,
     <<"nobody@lawfirm.com", "password123">>}

-----------------------------------------------------------------------------
\* what request.args['filename'] can name: a stored file, or a file that does
\* not exist
Filenames == DOMAIN files \cup {BlogFile(clock + 1)}

\* request.form of a POST to /review, /save_changes or /use_version
Forms ==
    {EmptyDict}
    \cup {[edit_message |-> m] : m \in Messages}
    \cup {[content |-> c] : c \in FormTexts}
    \cup {[edit_message |-> m, content |-> <<>>] : m \in Messages}

\* the forms of a chat edit or a manual edit
EditForms == {f \in Forms : f # EmptyDict}

\* requests to /select/<article>; the inputs a GET or a failing POST never
\* reads are not varied
SelectRequests ==
    {[method |-> "GET", article |-> "A.docx", custom_tone |-> <<>>,
      rewritten |-> Raise, image_outcome |-> "ok"]}
    \cup {[method |-> "POST", article |-> "gone.docx", custom_tone |-> <<>>,
           rewritten |-> Raise, image_outcome |-> "ok"]}
    \cup [method : {"POST"}, article : Articles, custom_tone : {<<"W", " ">>},
          rewritten : GenTexts \cup {Raise},
          image_outcome : {"ok", "safe_prompt", "generate", "download"}]

\* the requests to /select/<article> that start a draft
Bootstraps ==
    {r \in SelectRequests :
        r.method = "POST" /\ r.article \in Articles /\ r.rewritten # Raise}

\* requests to /review; the Rewriter's answer is varied only for chat edits
ReviewRequests ==
    [method : {"GET"}, filename : Filenames \cup {NoFilename}, form : {EmptyDict},
     result : {Raise}, persisted : {TRUE}]
    \cup [method : {"POST"}, filename : Filenames \cup {NoFilename},
          form : {f \in Forms : "edit_message" \notin DOMAIN f},
          result : {Raise}, persisted : {TRUE}]
    \cup [method : {"POST"}, filename : Filenames \cup {NoFilename},
          form : {f \in Forms : "edit_message" \in DOMAIN f},
          result : EditTexts, persisted : {TRUE}]
    \cup [method : {"POST"}, filename : Filenames \cup {NoFilename},
          form : {f \in Forms : "edit_message" \in DOMAIN f},
          result : {Raise}, persisted : BOOLEAN]

\* one request at a time: no other request is being served
Next ==
    \/ Tick /\ Within(MaxCost)' /\ UNCHANGED requests
    \/ logout /\ UNCHANGED requests
    \/ \E r \in SelectRequests :
            /\ select_article(r.method, r.article, <<"custom">>, r.custom_tone,
                              r.rewritten, r.image_outcome)
            /\ Within(MaxCost)'
            /\ UNCHANGED requests
    \/ \E form \in Forms : use_version(form) /\ UNCHANGED requests
    \/ finalize /\ Within(MaxCost)' /\ UNCHANGED requests
    \/ \E form \in Forms :
            save_changes(form) /\ Within(MaxCost)' /\ UNCHANGED requests
    \/ \E r \in ReviewRequests :
            /\ review(r.method, r.filename, r.form, r.result, r.persisted)
            /\ Within(MaxCost)'
            /\ UNCHANGED requests

Spec == Init /\ [][Next]_vars

\* longer editing of a draft, within one second of wall-clock time and
\* without the requests to /select/<article> that start no draft
NextEdit ==
    \/ logout /\ UNCHANGED requests
    \/ \E r \in Bootstraps :
            /\ select_article(r.method, r.article, <<"custom">>, r.custom_tone,
                              r.rewritten, r.image_outcome)
            /\ Within(MaxEditCost)'
            /\ UNCHANGED requests
    \/ \E form \in Forms : use_version(form) /\ UNCHANGED requests
    \/ \E form \in Forms :
            save_changes(form) /\ Within(MaxEditCost)' /\ UNCHANGED requests
    \/ \E r \in ReviewRequests :
            /\ review(r.method, r.filename, r.form, r.result, r.persisted)
            /\ Within(MaxEditCost)'
            /\ UNCHANGED requests

SpecEdit == Init /\ [][NextEdit]_vars

\* the requests to /review that reach the Rewriter, and the manual edit that
\* empties the draft
MemoryRequests ==
    {r \in ReviewRequests : r.method = "POST" /\ "edit_message" \in DOMAIN r.form}
    \cup [method : {"POST"}, filename : {NoFilename}, form : {[content |-> <<>>]},
          result : {Raise}, persisted : {TRUE}]

\* the requests that fill the Rewriter memory, over several sessions
NextMemory ==
    \/ logout /\ UNCHANGED requests
    \/ \E r \in {b \in Bootstraps : b.image_outcome = "ok"} :
            /\ select_article(r.method, r.article, <<"custom">>, r.custom_tone,
                              r.rewritten, r.image_outcome)
            /\ Within(MaxMemoryCost)'
            /\ UNCHANGED requests
    \/ \E r \in MemoryRequests :
            /\ review(r.method, r.filename, r.form, r.result, r.persisted)
            /\ Within(MaxMemoryCost)'
            /\ UNCHANGED requests

SpecMemory == Init /\ [][NextMemory]_vars

\* one draft, edited through /review from several tabs at once
NextRace ==
    \/ \E r \in {b \in Bootstraps : b.image_outcome = "ok"} :
            /\ select_article(r.method, r.article, <<"custom">>, r.custom_tone,
                              r.rewritten, r.image_outcome)
            /\ Within(MaxRaceCost)'
            /\ UNCHANGED requests
    \/ \E tab \in Tabs, form \in EditForms : review_open(tab, form)
    \/ \E tab \in Tabs : review_call(tab) /\ Within(MaxRaceCost)'
    \/ \E tab \in Tabs, result \in EditTexts : review_return(tab, result)
    \/ \E tab \in Tabs : review_store(tab) /\ Within(MaxRaceCost)'

SpecRace == Init /\ [][NextRace]_vars

\* the account and custom-tone handlers, which share only the flask session
\* with the post workflow
NextTones ==
    \/ \E c \in Credentials : login(c[1], c[2]) /\ UNCHANGED requests
    \/ logout /\ UNCHANGED requests
    \/ \E form \in ToneForms : add_tone(form) /\ UNCHANGED requests

SpecTones == Init /\ [][NextTones]_vars

-----------------------------------------------------------------------------
(* Vocabulary of the properties *)

Live(s) == "current_post" \in DOMAIN s /\ "chat_history" \in DOMAIN s

IsPrefix(h1, h2) == Len(h1) <= Len(h2) /\ SubSeq(h2, 1, Len(h1)) = h1

\* c is the content of the last message of h that is flagged content_is_blog
LastBlogIs(h, c) ==
    \E i \in 1..Len(h) :
        /\ h[i].content_is_blog
        /\ h[i].content = c
        /\ \A j \in (i + 1)..Len(h) : ~h[j].content_is_blog

HasBlog(h) == \E i \in 1..Len(h) : h[i].content_is_blog

ChatEdits == {r \in ReviewRequests : r.method = "POST" /\ "edit_message" \in DOMAIN r.form}

ManualEdits ==
    {r \in ReviewRequests :
        r.method = "POST" /\ "edit_message" \notin DOMAIN r.form
                          /\ "content" \in DOMAIN r.form}

-----------------------------------------------------------------------------
\* C1: whenever a live session exists, the content of the latest transcript
\* message flagged content_is_blog equals current_post.content.
C1_LatestBlogIsContent ==
    (Live(session) /\ HasBlog(session.chat_history))
        => LastBlogIs(session.chat_history, session.current_post.content)

-----------------------------------------------------------------------------
\* C2: every successful chat edit leaves the last content_is_blog message of
\* the transcript equal to current_post.content, and both equal to the text
\* the Rewriter returned for that edit.
C2_ChatEditKeepsSync ==
    [][editCall' # <<>> => \A r \in ChatEdits :
          (/\ r.result # Raise
           /\ review(r.method, r.filename, r.form, r.result, r.persisted))
          => /\ LastBlogIs(session'.chat_history, r.result)
             /\ session'.current_post.content = r.result]_vars

\* two chat edits in a row have been applied to a bootstrapped session
C2_Witness ==
    /\ Live(session)
    /\ Len(session.chat_history) = 5
    /\ session.chat_history[2].role = "user"
    /\ session.chat_history[4].role = "user"
    /\ response.status = "redirect:review"
    /\ session.current_post.content = editCall[1].result

-----------------------------------------------------------------------------
\* C3: while the session_id stays the same, every step leaves the previous
\* transcript as a prefix of the new one: messages are only appended, none
\* is changed, reordered or removed.
C3_TranscriptAppendOnly ==
    [][(/\ "session_id" \in DOMAIN session /\ "session_id" \in DOMAIN session'
        /\ session'.session_id = session.session_id
        /\ "chat_history" \in DOMAIN session)
       => /\ "chat_history" \in DOMAIN session'
          /\ IsPrefix(session.chat_history, session'.chat_history)]_vars

\* save_changes has added its note behind the messages of an edited draft
C3_Witness ==
    /\ Live(session)
    /\ Len(session.chat_history) = 3
    /\ session.chat_history[1].content_is_blog
    /\ session.chat_history[2].content_is_blog
    /\ session.chat_history[3] = SystemNote
    /\ response.status = "redirect:finalize"

-----------------------------------------------------------------------------
\* C4: after finalize has run with a live session, the file stored under the
\* filename it exposes holds exactly current_post.content, so a download of
\* that filename returns it; for a generated draft that was never edited
\* this is the originally generated content.
C4_FinalizePersistsContent ==
    response.status = "render:finalize"
        => /\ "current_post" \in DOMAIN session
           /\ response.filename \in DOMAIN files
           /\ download(response.filename) = session.current_post.content
           /\ (draft.origin = "generation" /\ ~draft.edited)
                => download(response.filename) = draft.content

\* a generated draft was finalized without any edit
C4_Witness ==
    /\ response.status = "render:finalize"
    /\ draft.origin = "generation"
    /\ ~draft.edited
    /\ draft.content \in GenTexts
    /\ files[response.filename] = draft.content

-----------------------------------------------------------------------------
\* C5 (as stated): a review request with a filename naming a stored file and
\* no current_post in the session gives current_post.content equal to the
\* file's content, a fresh session_id and a transcript of exactly one
\* assistant message, flagged content_is_blog, holding the file's content.
C5_ResumeAsStated ==
    [][\A r \in ReviewRequests :
          (/\ r.filename \in DOMAIN files
           /\ "current_post" \notin DOMAIN session
           /\ review(r.method, r.filename, r.form, r.result, r.persisted))
          => /\ Live(session')
             /\ session'.current_post.content = files[r.filename]
             /\ session'.session_id > urandom
             /\ Len(session'.chat_history) = 1
             /\ session'.chat_history[1].role = "assistant"
             /\ session'.chat_history[1].content_is_blog
             /\ session'.chat_history[1].content = files[r.filename]]_vars

\* C5 (amended): a GET of review with a filename naming a stored file and no
\* current_post in the session gives current_post.content equal to the text
\* of the file with every "\r\n" and "\r" read as "\n", a fresh session_id
\* and a transcript of exactly one assistant message, flagged
\* content_is_blog, holding that same text.
C5_ResumeByGet ==
    [][\A r \in ReviewRequests :
          (/\ r.method = "GET"
           /\ r.filename \in DOMAIN files
           /\ "current_post" \notin DOMAIN session
           /\ review(r.method, r.filename, r.form, r.result, r.persisted))
          => /\ Live(session')
             /\ session'.current_post.content = ReadText(files[r.filename])
             /\ session'.session_id > urandom
             /\ \A s \in DOMAIN conversations : s # session'.session_id
             /\ Len(session'.chat_history) = 1
             /\ session'.chat_history[1].role = "assistant"
             /\ session'.chat_history[1].content_is_blog
             /\ session'.chat_history[1].content = ReadText(files[r.filename])]_vars

\* a stored file with "\r\n" in it was reopened by a GET with no live session
C5_Witness ==
    /\ Live(session)
    /\ response.status = "render:review"
    /\ draft.origin = "file" /\ ~draft.edited
    /\ Len(session.chat_history) = 1
    /\ session.current_post.filename \in DOMAIN files
    /\ files[session.current_post.filename] = <<"a", "CR", "LF", "b">>
    /\ session.current_post.content = <<"a", "LF", "b">>

-----------------------------------------------------------------------------
NoDuplicateTones(users) ==
    \A u \in DOMAIN users :
        \A i, j \in 1..Len(users[u].custom_tones) :
            i # j => lower(users[u].custom_tones[i].name)
                        # lower(users[u].custom_tones[j].name)

\* the form names a tone the logged-in user already has, ignoring case
NamesExistingTone(form) ==
    /\ "user" \in DOMAIN session
    /\ "tone_name" \in DOMAIN form
    /\ strip(form.tone_name) # <<>>
    /\ \E i \in 1..Len(USERS[session.user.username].custom_tones) :
          lower(USERS[session.user.username].custom_tones[i].name)
            = lower(strip(form.tone_name))

\* C6: no user's stored custom_tones ever holds two tones whose names are
\* equal ignoring case; adding a tone whose name matches a stored one ignoring
\* case is refused and leaves the stored list unchanged.
C6_TonesUniqueIgnoringCase ==
    /\ []NoDuplicateTones(USERS)
    /\ [][\A form \in ToneForms :
             (NamesExistingTone(form) /\ add_tone(form))
             => /\ USERS' = USERS
                /\ response'.status
                     = "error:400 Tone with this name already exists"]_vars

\* "F" is stored once for a user, and a second add of that name was refused
C6_Witness ==
    /\ response.status = "error:400 Tone with this name already exists"
    /\ "user" \in DOMAIN session
    /\ Len(USERS[session.user.username].custom_tones) = 1
    /\ lower(USERS[session.user.username].custom_tones[1].name) = <<"f">>

-----------------------------------------------------------------------------
\* C7: when image generation fails at any step, generate_image gives None,
\* select_article POST still creates the session with image = None, one blog
\* message and a saved file, and chat edit, manual edit and finalize on such
\* a session do what they do for any draft.
C7_ImageFailureDoesNotBlock ==
    [][/\ \A r \in SelectRequests :
            (/\ r.method = "POST" /\ r.article \in Articles
             /\ r.rewritten # Raise /\ r.image_outcome # "ok"
             /\ select_article(r.method, r.article, <<"custom">>, r.custom_tone,
                               r.rewritten, r.image_outcome))
            => /\ response'.status = "redirect:review"
               /\ Live(session')
               /\ session'.current_post.image = None
               /\ session'.current_post.content = r.rewritten
               /\ Len(session'.chat_history) = 1
               /\ session'.chat_history[1].content_is_blog
               /\ session'.chat_history[1].content = r.rewritten
               /\ session'.current_post.filename \in DOMAIN files'
               /\ files'[session'.current_post.filename] = r.rewritten
       /\ (Live(session) /\ "image" \in DOMAIN session.current_post
                         /\ session.current_post.image = None)
            => /\ finalize
                 => /\ response'.status = "render:finalize"
                    /\ files'[response'.filename] = session.current_post.content
                    /\ session' = session
               /\ \A r \in ChatEdits :
                    (r.result # Raise
                     /\ review(r.method, r.filename, r.form, r.result, r.persisted))
                    => /\ response'.status = "redirect:review"
                       /\ session'.current_post.content = r.result
                       /\ session'.current_post.image = None
                       /\ Len(session'.chat_history)
                            = Len(session.chat_history) + 2
               /\ \A r \in ManualEdits :
                    review(r.method, r.filename, r.form, r.result, r.persisted)
                    => /\ response'.status = "redirect:review"
                       /\ session'.current_post.content = r.form.content
                       /\ session'.current_post.image = None
                       /\ Len(session'.chat_history)
                            = Len(session.chat_history) + 1]_vars

\* a draft without image has been edited by chat and then finalized
C7_Witness ==
    /\ Live(session)
    /\ "image" \in DOMAIN session.current_post
    /\ session.current_post.image = None
    /\ response.status = "render:finalize"
    /\ draft.origin = "generation" /\ draft.edited
    /\ Len(session.chat_history) = 3
    /\ files[response.filename] = session.current_post.content

-----------------------------------------------------------------------------
SessionKeys == {"current_post", "chat_history", "session_id"}

\* C8: review (GET or POST, also with a filename that cannot be loaded),
\* finalize, save_changes and use_version, invoked while the session holds no
\* current_post, answer with a redirect to the dashboard and leave the
\* session without current_post, chat_history and session_id, write no file
\* and call the Rewriter not at all.
C8_NoPostRedirects ==
    [][("current_post" \notin DOMAIN session
        /\ \/ finalize
           \/ \E form \in Forms : save_changes(form)
           \/ \E form \in Forms : use_version(form)
           \/ \E r \in ReviewRequests :
                /\ r.filename \notin DOMAIN files
                /\ review(r.method, r.filename, r.form, r.result, r.persisted))
       => /\ response'.status = "redirect:dashboard"
          /\ DOMAIN session' \cap SessionKeys = {}
          /\ files' = files
          /\ conversations' = conversations
          /\ editCall' = <<>>]_vars

\* a handler was sent to the dashboard although stored files exist
C8_Witness ==
    /\ response.status = "redirect:dashboard"
    /\ DOMAIN session \cap SessionKeys = {}
    /\ DOMAIN files # {}

-----------------------------------------------------------------------------
SameSession ==
    /\ "session_id" \in DOMAIN session /\ "session_id" \in DOMAIN session'
    /\ session'.session_id = session.session_id

-----------------------------------------------------------------------------
\* C10: the session_id of a live session changes only when logout clears the
\* session or a select_article POST replaces it, and every chat edit on a
\* live session keeps it and calls the Rewriter with that session_id, the submitted instruction, and the content of the last
\* transcript message flagged content_is_blog (current_post.content when the
\* transcript has none).
C10_StableIdAndEditArguments ==
    [][("current_post" \in DOMAIN session /\ "session_id" \in DOMAIN session
        /\ "chat_history" \in DOMAIN session)
       => /\ ~SameSession
             => \/ DOMAIN session' \cap SessionKeys = {}
                \/ \E r \in SelectRequests :
                     /\ r.method = "POST"
                     /\ select_article(r.method, r.article, <<"custom">>,
                                       r.custom_tone, r.rewritten,
                                       r.image_outcome)
          /\ editCall' # <<>> => \A r \in ChatEdits :
                review(r.method, r.filename, r.form, r.result, r.persisted)
                => /\ SameSession
                   /\ Len(editCall') = 1
                   /\ editCall'[1].session_id = session.session_id
                   /\ editCall'[1].user_message = r.form.edit_message
                   /\ editCall'[1].result = r.result
                   /\ IF HasBlog(session.chat_history)
                      THEN LastBlogIs(session.chat_history,
                                      editCall'[1].current_content)
                      ELSE editCall'[1].current_content
                             = session.current_post.content]_vars

\* a chat edit was given the content of a blog message later than the first
\* one, and one that differs from what current_post.content was
C10_Witness ==
    /\ Live(session)
    /\ response.status = "redirect:review"
    /\ Len(editCall) = 1
    /\ editCall[1].session_id = session.session_id
    /\ Len(session.chat_history) = 5
    /\ session.chat_history[2].content_is_blog
    /\ session.chat_history[3] = SystemNote
    /\ editCall[1].current_content = session.chat_history[2].content
    /\ editCall[1].current_content # session.chat_history[1].content

-----------------------------------------------------------------------------
\* the transcript messages the edit of request r adds
OwnMessages(r) ==
    IF "edit_message" \in DOMAIN r.form
    THEN <<UserMessage(r.form.edit_message), BlogMessage(r.result)>>
    ELSE <<BlogMessage(r.form.content)>>

\* C11: when an edit request of review is written back after another request
\* has changed the stored session since this one read it, the stored
\* current_post.content and transcript become exactly what this request
\* wrote: the session it read plus its own edit.  What the other request
\* had stored is gone, the session_id is kept, and the request is answered
\* with the usual redirect, not with an error.
C11_LastWriteWins ==
    [][\A tab \in Tabs :
          (/\ tab \in DOMAIN requests
           /\ requests[tab].pc = "store"
           /\ session # requests[tab].session
           /\ review_store(tab))
          => LET r == requests[tab]
                 own == OwnMessages(r)
             IN  /\ response'.status = "redirect:review"
                 /\ session'.chat_history = r.session.chat_history \o own
                 /\ session'.current_post.content = own[Len(own)].content
                 /\ session'.session_id = r.session.session_id
                 /\ Len(session'.chat_history) - Len(r.session.chat_history)
                      = Len(own)]_vars

\* two tabs read the same session; one stored a chat edit, then the other
\* stored a manual edit over it
C11_Witness ==
    /\ DOMAIN requests = Tabs
    /\ \E t, u \in Tabs :
          /\ t # u
          /\ requests[t].pc = "done" /\ requests[u].pc = "done"
          /\ requests[t].session = requests[u].session
          /\ "edit_message" \in DOMAIN requests[u].form
          /\ "edit_message" \notin DOMAIN requests[t].form
          /\ requests[t].overwrote.chat_history
               = requests[u].session.chat_history \o OwnMessages(requests[u])
          /\ session.chat_history
               = requests[t].session.chat_history \o OwnMessages(requests[t])
          /\ session.current_post.content = requests[t].form.content
          /\ response.status = "redirect:review"

-----------------------------------------------------------------------------
SystemEntry == [role |-> "system", content |-> SystemPrompt]

\* what a call of edit_content that returns adds to the memory of its
\* session_id
CallEntries(c) ==
    (IF c.current_content # <<>>
     THEN <<[role |-> "assistant", content |-> c.current_content]>>
     ELSE <<>>)
    \o <<[role |-> "user", content |-> c.user_message],
         [role |-> "assistant", content |-> c.result]>>

\* C12: the Rewriter memory of every session_id begins with one system
\* message; each edit_content call that returns appends an assistant entry
\* with current_content (only when it is not empty), a user entry with the
\* instruction and an assistant entry with the returned text, in this
\* order, and touches no other session_id; no step removes an entry or a
\* session_id, logout and the replacement of the session included.
C12_MemoryOnlyGrows ==
    /\ [](\A s \in DOMAIN conversations :
            conversations[s] # <<>> /\ conversations[s][1] = SystemEntry)
    /\ [][/\ DOMAIN conversations \subseteq DOMAIN conversations'
          /\ \A s \in DOMAIN conversations :
                IsPrefix(conversations[s], conversations'[s])
          /\ (editCall' # <<>> /\ editCall'[1].result # Raise)
               => LET c == editCall'[1]
                      old == IF c.session_id \in DOMAIN conversations
                             THEN conversations[c.session_id]
                             ELSE <<SystemEntry>>
                  IN  /\ conversations'[c.session_id] = old \o CallEntries(c)
                      /\ \A s \in DOMAIN conversations' \ {c.session_id} :
                            /\ s \in DOMAIN conversations
                            /\ conversations'[s] = conversations[s]]_vars

\* the memory of a session that was logged out is still there, filled by a
\* call without current_content, next to the memory of the session that
\* replaced it
C12_Witness ==
    /\ "session_id" \in DOMAIN session
    /\ editCall # <<>>
    /\ editCall[1].result # Raise
    /\ editCall[1].session_id = session.session_id
    /\ \E old \in DOMAIN conversations :
          /\ old # session.session_id
          /\ Len(conversations[old]) = 3
          /\ conversations[old][2].role = "user"
    /\ session.session_id \in DOMAIN conversations
    /\ Len(conversations[session.session_id]) = 4
    /\ conversations[session.session_id][2].role = "assistant"

-----------------------------------------------------------------------------
\* the chat edits of review whose completion call fails
FailedEdits == {r \in ChatEdits : r.result = Raise}

\* what a call of edit_content that fails has added to the memory of its
\* session_id
PendingEntries(c) ==
    (IF c.current_content # <<>>
     THEN <<[role |-> "assistant", content |-> c.current_content]>>
     ELSE <<>>)
    \o <<[role |-> "user", content |-> c.user_message]>>

\* the memory of the call's session_id holds the entries appended before
\* the completion call, and nothing after them
MemoryHoldsPending ==
    LET c == editCall'[1]
        old == IF c.session_id \in DOMAIN conversations
               THEN conversations[c.session_id]
               ELSE <<SystemEntry>>
    IN  /\ c.session_id \in DOMAIN conversations'
        /\ conversations'[c.session_id] = old \o PendingEntries(c)

\* C13 (as stated): when the Rewriter call of a chat edit fails, review ends
\* in the failure, the session's current_post and transcript are exactly as
\* before the request, and the Rewriter memory of the session_id holds the
\* appended current_content and instruction.
C13_FailedEditLeavesSession ==
    [][editCall' # <<>> => \A r \in FailedEdits :
          review(r.method, r.filename, r.form, r.result, r.persisted)
          => /\ response'.status = "error:500"
             /\ DOMAIN session' \cap SessionKeys = DOMAIN session \cap SessionKeys
             /\ \A k \in DOMAIN session \cap SessionKeys : session'[k] = session[k]
             /\ MemoryHoldsPending]_vars

\* C13 (amended): when the Rewriter call of a chat edit fails, review ends in
\* the failure and the Rewriter memory of the session_id holds the appended
\* current_content (when not empty) and instruction.  If the session held
\* current_post before the request, the session is exactly as before.  If
\* the request first resumed a stored file, the session is either as before
\* or holds the resumed post with a transcript of the one message of the
\* file and a fresh session_id; in no case is the instruction or a reply
\* of the Rewriter in the transcript.
C13_FailedEditOnLiveSession ==
    [][editCall' # <<>> => \A r \in FailedEdits :
          review(r.method, r.filename, r.form, r.result, r.persisted)
          => /\ response'.status = "error:500"
             /\ MemoryHoldsPending
             /\ files' = files
             /\ IF "current_post" \in DOMAIN session
                THEN session' = session
                ELSE \/ session' = session
                     \/ /\ r.filename \in DOMAIN files
                        /\ session' =
                             new_session(session,
                                 [content |-> ReadText(files[r.filename]),
                                  filename |-> r.filename],
                                 editCall'[1].session_id)
                        /\ editCall'[1].session_id > urandom]_vars

\* a chat edit failed on a draft that had been edited by hand before: the
\* transcript ends with that edit, the memory with the instruction
C13_Witness ==
    /\ response.status = "error:500"
    /\ editCall # <<>>
    /\ editCall[1].result = Raise
    /\ Live(session)
    /\ "session_id" \in DOMAIN session
    /\ editCall[1].session_id = session.session_id
    /\ Len(session.chat_history) = 2
    /\ session.chat_history[2].content_is_blog
    /\ session.current_post.content = session.chat_history[2].content
    /\ session.session_id \in DOMAIN conversations
    /\ LET m == conversations[session.session_id]
       IN  /\ m[Len(m)].role = "user"
           /\ m[Len(m) - 1].content = session.current_post.content

====
